---- MODULE Spec2Model ----
(***************************************************************************)
(* A model of the FCPEG syntax parser (impl/rust/fcpeg/src/parser.rs) and  *)
(* of the part of the tree model it uses (impl/rust/fcpeg/src/tree.rs).    *)
(*                                                                         *)
(* The parser is a recursive-descent evaluator over an immutable rule      *)
(* graph.  Every private function of SyntaxParser is an operator that      *)
(* takes the parser fields `p` and returns them together with the          *)
(* function's result:  [p |-> fields, k |-> "Some" | "None" | "Err",       *)
(* v |-> elements].  "Some"/"None" are Ok(Some(v)) / Ok(None), "Err" is    *)
(* Err(()).  The public function SyntaxParser::parse is the action Parse.  *)
(*                                                                         *)
(* Text is a sequence of code points; a code point is a one-letter string, *)
(* with "LF" for 0x0a, "CR" for 0x0d and "NUL" for the appended \0.        *)
(* Uuids of tree elements are random in the program and are left out.      *)
(***************************************************************************)
EXTENDS Integers, Sequences, FiniteSets, TLC

VARIABLES
    pc,                  \* "idle" before the first call of parse, "returned" after one
    gram,                \* index of the rule map handed to the last call
    input,               \* the src_content handed to the last call
    enable_memoization,  \* SyntaxParser.enable_memoization of the last call
    src_content,         \* SyntaxParser.src_content at return
    src_i,               \* SyntaxParser.src_i at return
    src_line,            \* SyntaxParser.src_line at return
    src_latest_line_i,   \* SyntaxParser.src_latest_line_i at return
    arg_maps,            \* SyntaxParser.arg_maps at return
    rule_stack,          \* SyntaxParser.rule_stack at return
    memoized_map,        \* SyntaxParser.memoized_map at return
    cons,                \* the caller's console: the kinds of the records appended so far
    result,              \* what the last call of parse returned
    calls,               \* history: one record per call of a private function, at its return
    cons_at_entry,       \* history: the console at entry of the last call
    prev_result,         \* history: what the call before the last returned
    parses,              \* number of calls of parse so far
    w_loop_range,        \* a loop wrapper run on its own: the loop_range of its element
    w_body,              \* what the element under the wrapper returns at each cursor
    w_loop_count,        \* loop_count of the wrapper
    w_returned           \* what the wrapper returned, "" while it runs

vars == <<pc, gram, input, enable_memoization, src_content, src_i, src_line,
          src_latest_line_i, arg_maps, rule_stack, memoized_map, cons, result,
          calls, cons_at_entry, prev_result, parses, w_loop_range, w_body, w_loop_count,
          w_returned>>

----------------------------------------------------------------------------
(* Bounds of the model *)

\* longest input text handed to parse, in code points
MaxLen == 3

\* calls of parse in one behaviour
MaxParses == 2

----------------------------------------------------------------------------
(* tree.rs: ASTReflectionStyle, CharacterPosition, SyntaxNodeElement *)

Reflection(elem_name) == [style |-> "Reflection", name |-> elem_name]
NoReflection == [style |-> "NoReflection", name |-> ""]
Expansion == [style |-> "Expansion", name |-> ""]

from_config(reverse_ast_reflection, is_reflectable_arg, elem_name) ==
    IF is_reflectable_arg
    THEN IF reverse_ast_reflection THEN Reflection(elem_name) ELSE NoReflection
    ELSE IF reverse_ast_reflection THEN NoReflection ELSE Reflection(elem_name)

is_reflectable(style) == style # NoReflection

is_expandable(style) == style = Expansion

CharacterPosition(index, line, column) ==
    [index |-> index, line |-> line, column |-> column]

from_node_args(sub_elems, style) ==
    [t |-> "Node", sub_elems |-> sub_elems, ast_reflection_style |-> style]

from_leaf_args(pos, value, style) ==
    [t |-> "Leaf", pos |-> pos, value |-> value, ast_reflection_style |-> style]

set_ast_reflection_style(elem, style) ==
    [elem EXCEPT !.ast_reflection_style = style]

EmptyNode(elem) == elem.t = "Node" /\ Len(elem.sub_elems) = 0

\* the attaching loops without their test of node.sub_elems.len()
KeepEmptyNodes(elems) == elems

\* the filter every attaching loop applies: Nodes without children are dropped
RECURSIVE DropEmptyNodes(_)
DropEmptyNodes(elems) ==
    IF elems = <<>> THEN <<>>
    ELSE IF EmptyNode(Head(elems)) THEN DropEmptyNodes(Tail(elems))
    ELSE <<Head(elems)>> \o DropEmptyNodes(Tail(elems))

\* SyntaxNode::join_child_leaf_values: every Node child is descended into,
\* whatever its reflection; a Leaf contributes only when it is Reflection(_)
RECURSIVE join_child_leaf_values(_)
JoinChild(each_elem) ==
    IF each_elem.t = "Node" THEN join_child_leaf_values(each_elem)
    ELSE IF each_elem.ast_reflection_style.style = "Reflection" THEN each_elem.value
    ELSE <<>>
join_child_leaf_values(node) ==
    IF node.sub_elems = <<>> THEN <<>>
    ELSE JoinChild(Head(node.sub_elems))
         \o join_child_leaf_values([node EXCEPT !.sub_elems = Tail(@)])

----------------------------------------------------------------------------
(* The rule graph (rule.rs is not part of the sources; the shapes are the  *)
(* ones parser.rs reads).                                                  *)

Sequential == [kind |-> "Sequential", range |-> <<1, 1>>]
Random(min, max) == [kind |-> "Random", range |-> <<min, max>>]

\* RuleElement::Group
Grp(uuid, kind, elem_order, loop_range, lookahead_kind, style, sub_elems) ==
    [e |-> "Group", uuid |-> uuid, kind |-> kind, elem_order |-> elem_order,
     loop_range |-> loop_range, lookahead_kind |-> lookahead_kind,
     ast_reflection_style |-> style, sub_elems |-> sub_elems]

\* RuleElement::Expression; generics_args and template_args are those of IdWithArgs
Exp(kind, value, loop_range, lookahead_kind, style, generics_args, template_args) ==
    [e |-> "Expression", kind |-> kind, value |-> value, loop_range |-> loop_range,
     lookahead_kind |-> lookahead_kind, ast_reflection_style |-> style,
     generics_args |-> generics_args, template_args |-> template_args]

Rule(group, generics_arg_ids, template_arg_ids) ==
    [group |-> group, generics_arg_ids |-> generics_arg_ids,
     template_arg_ids |-> template_arg_ids]

----------------------------------------------------------------------------
(* SyntaxParser: fields, results, console *)

\* SyntaxParser.loop_limit is 65536 in the program.  The model scales it to
\* the input bound: a repetition whose body consumes one code point per
\* iteration runs at most MaxLen + 1 times, the sentinel included, which is
\* the program on a text of loop_limit code points.
loop_limit == 3

\* the fields parse() sets when it constructs the parser
NewParser(console) ==
    [src_i |-> 0, src_line |-> 0, src_latest_line_i |-> 0,
     arg_maps |-> <<>>, rule_stack |-> <<>>, regex_map |-> {},
     memoized_map |-> <<>>, cons |-> console, calls |-> <<>>]

Ret(p, k, v) == [p |-> p, k |-> k, v |-> v]

\* cons.borrow_mut().append_log(..); return Err(())
Fail(p, log) == Ret([p EXCEPT !.cons = Append(@, log)], "Err", <<>>)

\* what a call of a private function saw at entry and left at return
Snap(p) ==
    [src_i |-> p.src_i, src_line |-> p.src_line,
     src_latest_line_i |-> p.src_latest_line_i,
     rule_stack |-> p.rule_stack, arg_maps |-> p.arg_maps,
     n_logs |-> Len(p.cons)]

\* a rule element without the elements below it
Brief(elem) ==
    IF elem.e = "Rule" THEN elem
    ELSE IF elem.e = "Group" THEN [elem EXCEPT !.sub_elems = <<>>]
    ELSE [elem EXCEPT !.generics_args = <<>>, !.template_args = <<>>]

\* history of calls: the record of one call, appended when it returns
Call(fn, elem, p0, ret, aux) ==
    [ret EXCEPT !.p.calls =
        Append(@, [fn |-> fn, elem |-> Brief(elem), entry |-> Snap(p0),
                   exit |-> Snap(ret.p), k |-> ret.k, v |-> ret.v, aux |-> aux])]

CharCount(c) == Len(c.src_content)

substring_src_content(c, start_i, len) ==
    SubSeq(c.src_content, start_i + 1,
           IF start_i + len <= Len(c.src_content) THEN start_i + len
           ELSE Len(c.src_content))

get_char_position(p) ==
    LET column == IF p.src_i >= p.src_latest_line_i
                  THEN p.src_i - p.src_latest_line_i
                  ELSE p.src_latest_line_i
    IN  CharacterPosition(p.src_i, p.src_line, column)

Min(S) == CHOOSE x \in S : \A y \in S : x <= y

\* the reverse offsets of the (at most two) last newlines of expr_str, in the
\* order the reverse scan pushes them
NewLineIndexes(expr_str) ==
    LET found == {k \in 0 .. Len(expr_str) - 1 : expr_str[Len(expr_str) - k] = "LF"}
    IN  IF found = {} THEN <<>>
        ELSE IF Cardinality(found) = 1 THEN <<Min(found)>>
        ELSE <<Min(found), Min(found \ {Min(found)})>>

add_source_index_by_string(p, expr_str) ==
    LET new_line_indexes == NewLineIndexes(expr_str)
        n == Len(new_line_indexes)
        latest_new_line_i == new_line_indexes[n]
        lines == Cardinality({k \in 1 .. Len(expr_str) : expr_str[k] = "LF"})
        moved == [p EXCEPT !.src_i = @ + Len(expr_str)]
    IN  IF n = 0 THEN moved
        ELSE [moved EXCEPT
                !.src_line = @ + lines,
                !.src_latest_line_i =
                    IF n = 2
                    THEN p.src_i + latest_new_line_i - new_line_indexes[1] + 1
                    ELSE p.src_i + latest_new_line_i + 1]

\* Regex::new and Regex::is_match on one code point, for the character
\* classes the rule maps below use; "[" does not compile
RegexNew(value) ==
    CASE value = "[ab]" -> [ok |-> TRUE, chars |-> {"a", "b"}]
      [] value = "[^a]" -> [ok |-> TRUE, chars |-> {"b", "c", "LF", "NUL"}]
      [] OTHER -> [ok |-> FALSE, chars |-> {}]

\* MemoizationMap::push and ::find; the map is a sequence of entries, the
\* newest first, an insert replacing the entry of the same key
MemoKey(entry) == <<entry.group_uuid, entry.src_i>>

MemoFind(map, group_uuid, at) ==
    SelectSeq(map, LAMBDA entry : MemoKey(entry) = <<group_uuid, at>>)

MemoPush(map, group_uuid, at, src_len, k, v) ==
    <<[group_uuid |-> group_uuid, src_i |-> at, src_len |-> src_len, k |-> k, v |-> v]>>
    \o SelectSeq(map, LAMBDA entry : MemoKey(entry) # <<group_uuid, at>>)

\* the check both loop wrappers make when the body fails or the input ends
InRange(loop_count, min_count, max_count) ==
    loop_count >= min_count /\ (max_count = -1 \/ loop_count <= max_count)

\* block.rs is not part of the sources; JOIN is the primitive parser.rs names
PRIMITIVE_RULE_NAMES == {"JOIN"}

----------------------------------------------------------------------------
(* SyntaxParser: the recursive matcher.  `c` holds what a call of parse    *)
(* never changes: rule_map, src_content, enable_memoization.               *)
(*                                                                         *)
(* A function that calls another one and works on what it returned is      *)
(* written as two operators: one that makes the call, and one that is the  *)
(* body of the function, with the value r the call returns as its last     *)
(* parameter; r is looked at only on the paths on which the code makes     *)
(* the call.                                                               *)
(* parse_group runs parse_lookahead_group, which runs parse_loop_group,    *)
(* which runs the loop, and nothing happens between these three entries:   *)
(* parse_group evaluates the loop and applies the rest of parse_loop_group *)
(* and of parse_lookahead_group to what it returned.  parse_expr does the  *)
(* same with its two inner functions.                                      *)

RECURSIVE parse_rule(_, _, _)
RECURSIVE parse_group(_, _, _, _)
RECURSIVE loop_group_iter(_, _, _, _, _, _)
RECURSIVE loop_group_step(_, _, _, _, _, _, _)
RECURSIVE parse_element_order_group(_, _, _, _)
RECURSIVE random_passes(_, _, _, _, _, _, _, _)
RECURSIVE random_pass_end(_, _, _, _, _, _)
RECURSIVE random_elems(_, _, _, _, _, _, _, _)
RECURSIVE random_elem_step(_, _, _, _, _, _, _, _)
RECURSIVE parse_raw_group(_, _, _)
RECURSIVE raw_elems(_, _, _, _, _)
RECURSIVE raw_expr_step(_, _, _, _, _, _)
RECURSIVE raw_choice_step(_, _, _, _)
RECURSIVE raw_group_step(_, _, _, _, _, _)
RECURSIVE choice_alts(_, _, _, _, _, _, _)
RECURSIVE choice_step(_, _, _, _, _, _, _, _)
RECURSIVE parse_expr(_, _, _)
RECURSIVE loop_expr_iter(_, _, _, _, _)
RECURSIVE loop_expr_step(_, _, _, _, _, _)
RECURSIVE parse_raw_expr(_, _, _)
RECURSIVE parse_id_expr(_, _, _)
RECURSIVE Unwind(_, _, _, _, _)

Opt(p, some, v) == IF some THEN Ret(p, "Some", v) ELSE Ret(p, "None", <<>>)

\* a result of a loop with the number n of iterations that succeeded
RetN(p, k, v, n) == [p |-> p, k |-> k, v |-> v, n |-> n]

Pop(stack) == SubSeq(stack, 1, Len(stack) - 1)

\* the ? operator: the Err r leaves each function of fns, innermost first,
\* as it is
Unwind(fns, elem, p0, r, n) ==
    IF fns = <<>> THEN r
    ELSE Unwind(Tail(fns), elem, p0,
                Call(Head(fns), elem, p0, r,
                     [hit |-> FALSE, n |-> n, inner_k |-> "Err", inner_v |-> <<>>,
                      inner_i |-> r.p.src_i]),
                n)

\* parse_rule, after the match: the reflection of the Node it returns
RuleReflection(rule_group, rule_id) ==
    LET style == IF rule_group.sub_elems # <<>> /\ rule_group.sub_elems[1].e = "Group"
                 THEN rule_group.sub_elems[1].ast_reflection_style
                 ELSE rule_group.ast_reflection_style
    IN  IF style = Reflection("") THEN from_config(FALSE, TRUE, rule_id) ELSE style

RuleElem(rule_id) == [e |-> "Rule", rule_id |-> rule_id]

\* parse_rule that pops its frame on no match as well as on success
rule_result_popping(c, p, rule_id, r) ==
    CASE rule_id \notin DOMAIN c.rule_map.rule_map ->
             Call("parse_rule", RuleElem(rule_id), p, Fail(p, "UnknownRuleID"), <<>>)
      [] r.k = "Some" ->
             Call("parse_rule", RuleElem(rule_id), p,
                  Ret([r.p EXCEPT !.rule_stack = Pop(@)], "Some",
                      <<from_node_args(r.v, RuleReflection(c.rule_map.rule_map[rule_id].group,
                                                           rule_id))>>),
                  <<>>)
      [] r.k = "None" ->
             Call("parse_rule", RuleElem(rule_id), p,
                  [r EXCEPT !.p.rule_stack = Pop(@)], <<>>)
      [] OTHER -> Call("parse_rule", RuleElem(rule_id), p, r, <<>>)

\* parse_rule, r being what parse_group returns
rule_result(c, p, rule_id, r) ==
    CASE rule_id \notin DOMAIN c.rule_map.rule_map ->
             Call("parse_rule", RuleElem(rule_id), p, Fail(p, "UnknownRuleID"), <<>>)
      [] r.k = "Some" ->
             Call("parse_rule", RuleElem(rule_id), p,
                  Ret([r.p EXCEPT !.rule_stack = Pop(@)], "Some",
                      <<from_node_args(r.v, RuleReflection(c.rule_map.rule_map[rule_id].group,
                                                           rule_id))>>),
                  <<>>)
      [] OTHER -> Call("parse_rule", RuleElem(rule_id), p, r, <<>>)

parse_rule(c, p, rule_id) ==
    rule_result(c, p, rule_id,
        parse_group(c,
            [p EXCEPT !.rule_stack = Append(@, <<get_char_position(p), rule_id>>)],
            c.rule_map.rule_map[rule_id].group.elem_order,
            c.rule_map.rule_map[rule_id].group))

InvalidLoopRange(loop_range) == loop_range[2] # -1 /\ loop_range[1] > loop_range[2]

\* both loop wrappers, where the body failed or the input ended
loop_end(p, loop_range, children, loop_count) ==
    IF InRange(loop_count, loop_range[1], loop_range[2])
    THEN RetN(p, "Some", children, loop_count)
    ELSE RetN(p, "None", <<>>, loop_count)

\* parse_loop_group, once its loop has returned
parse_loop_group(group, p0, looped) ==
    Call("parse_loop_group", group, p0, Ret(looped.p, looped.k, looped.v), [n |-> looped.n])

\* parse_lookahead_group without its `self.src_i = start_src_i`
lookahead_group_unrestored(group, start_src_i, r) ==
    Opt(r.p, (r.k = "Some") = (group.lookahead_kind = "Positive"), <<>>)

\* parse_lookahead_group, the else branch after the inner match returned r
lookahead_group_result(group, start_src_i, r) ==
    Opt([r.p EXCEPT !.src_i = start_src_i],
        (r.k = "Some") = (group.lookahead_kind = "Positive"), <<>>)

\* parse_lookahead_group, once parse_loop_group has returned r
parse_lookahead_group(group, p0, r) ==
    Call("parse_lookahead_group", group, p0,
         IF group.lookahead_kind = "None" THEN r
         ELSE lookahead_group_result(group, p0.src_i, r),
         [inner_k |-> r.k, inner_v |-> r.v, inner_i |-> r.p.src_i])

GroupFns == <<"parse_loop_group", "parse_lookahead_group", "parse_group">>

\* parse_group, the memo hit
memo_hit(group, p, found) ==
    Call("parse_group", group, p,
         Ret([p EXCEPT !.src_i = @ + found.src_len], found.k, found.v), [hit |-> TRUE])

\* parse_group that stores the result whether or not the cursor moved
memo_push_always(c, group, p0, res) ==
    Call("parse_group", group, p0,
         IF c.enable_memoization
         THEN [res EXCEPT !.p.memoized_map =
                   MemoPush(@, group.uuid, p0.src_i, res.p.src_i - p0.src_i, res.k, res.v)]
         ELSE res,
         [hit |-> FALSE])

\* parse_group, after parse_lookahead_group returned res
memo_push(c, group, p0, res) ==
    Call("parse_group", group, p0,
         IF c.enable_memoization /\ res.p.src_i # p0.src_i
         THEN [res EXCEPT !.p.memoized_map =
                   MemoPush(@, group.uuid, p0.src_i, res.p.src_i - p0.src_i, res.k, res.v)]
         ELSE res,
         [hit |-> FALSE])

\* parse_group, looped being what the loop of parse_loop_group returns
group_result(c, group, p, looped) ==
    CASE c.enable_memoization /\ MemoFind(p.memoized_map, group.uuid, p.src_i) # <<>> ->
             memo_hit(group, p, MemoFind(p.memoized_map, group.uuid, p.src_i)[1])
      [] InvalidLoopRange(group.loop_range) ->
             Unwind(GroupFns, group, p, Fail(p, "InvalidLoopRange"), 0)
      [] looped.k = "Err" ->
             Unwind(GroupFns, group, p, Ret(looped.p, "Err", <<>>), looped.n)
      [] OTHER ->
             memo_push(c, group, p,
                       parse_lookahead_group(group, p, parse_loop_group(group, p, looped)))

parse_group(c, p, parent_elem_order, group) ==
    group_result(c, group, p, loop_group_iter(c, p, parent_elem_order, group, <<>>, 0))

\* the while of parse_loop_group, from the iteration after loop_count successes
loop_group_iter(c, p, parent_elem_order, group, children, loop_count) ==
    loop_group_step(c, p, parent_elem_order, group, children, loop_count,
                    parse_element_order_group(c, p, parent_elem_order, group))

\* one iteration, r being what parse_element_order_group returns
loop_group_step(c, p, parent_elem_order, group, children, loop_count, r) ==
    CASE p.src_i >= CharCount(c) -> loop_end(p, group.loop_range, children, loop_count)
      [] loop_count > loop_limit ->
             RetN(Fail(p, "TooLongRepetition").p, "Err", <<>>, loop_count)
      [] r.k = "Err" -> RetN(r.p, "Err", <<>>, loop_count)
      [] r.k = "None" -> loop_end(r.p, group.loop_range, children, loop_count)
      [] group.loop_range[2] # -1 /\ loop_count + 1 = group.loop_range[2] ->
             RetN(r.p, "Some", children \o DropEmptyNodes(r.v), loop_count + 1)
      [] OTHER ->
             loop_group_iter(c, r.p, parent_elem_order, group,
                             children \o DropEmptyNodes(r.v), loop_count + 1)

parse_element_order_group(c, p, parent_elem_order, group) ==
    CASE parent_elem_order.kind # "Random" -> parse_raw_group(c, p, group)
      [] group.sub_elems = <<>> ->
             Call("parse_element_order_group", group, p,
                  Fail(p, "InvalidRuleElementStructure"), <<>>)
      [] group.sub_elems[1].e # "Group" ->
             Call("parse_element_order_group", group, p,
                  Fail(p, "InvalidRuleElementStructure"), <<>>)
      [] OTHER ->
             Call("parse_element_order_group", group, p,
                  random_passes(c, p, parent_elem_order.range, group.sub_elems[1].sub_elems,
                                p.src_i,
                                [i \in 1 .. Len(group.sub_elems[1].sub_elems) |-> FALSE],
                                <<>>, 1),
                  <<>>)

\* the outer for of the Random branch: one pass per alternative
random_passes(c, p, range, tar_elems, random_order_start_src_i, is_each_subgroup_matched, children, pass) ==
    IF pass > Len(tar_elems)
    THEN Ret([p EXCEPT !.src_i = random_order_start_src_i], "None", <<>>)
    ELSE random_pass_end(c, range, tar_elems, random_order_start_src_i, pass,
                         random_elems(c, p, range, tar_elems, p.src_i,
                                      is_each_subgroup_matched, children, 1))

\* one pass, after its inner for ended with e
random_pass_end(c, range, tar_elems, random_order_start_src_i, pass, e) ==
    CASE e.k = "Err" -> Ret(e.p, "Err", <<>>)
      [] \A i \in 1 .. Len(tar_elems) : e.matched[i] -> Ret(e.p, "Some", e.children)
      [] OTHER -> random_passes(c, e.p, range, tar_elems, random_order_start_src_i,
                                e.matched, e.children, pass + 1)

\* the inner for of the Random branch.  subgroup_i is incremented once per
\* alternative on every path that stays in the loop and reset after a pass,
\* so it is the position of subelem in tar_elems.
random_elems(c, p, range, tar_elems, elem_start_src_i, is_each_subgroup_matched, children, subgroup_i) ==
    CASE subgroup_i > Len(tar_elems) ->
             [p |-> p, k |-> "Ok", matched |-> is_each_subgroup_matched,
              children |-> children]
      [] tar_elems[subgroup_i].e # "Group" ->
             random_elems(c, p, range, tar_elems, elem_start_src_i,
                          is_each_subgroup_matched, children, subgroup_i + 1)
      [] OTHER ->
             random_elem_step(c, range, tar_elems, elem_start_src_i,
                              is_each_subgroup_matched, children, subgroup_i,
                              parse_group(c, p, Sequential,
                                          [tar_elems[subgroup_i] EXCEPT !.loop_range = range]))

\* the Random branch with the elements of a matched alternative put before
\* the children collected so far
random_elem_step_prepending(c, range, tar_elems, elem_start_src_i, is_each_subgroup_matched, children, subgroup_i, r) ==
    CASE r.k = "Err" ->
             [p |-> r.p, k |-> "Err", matched |-> is_each_subgroup_matched,
              children |-> children]
      [] r.k = "None" ->
             random_elems(c, [r.p EXCEPT !.src_i = elem_start_src_i], range, tar_elems,
                          elem_start_src_i, is_each_subgroup_matched, children,
                          subgroup_i + 1)
      [] is_each_subgroup_matched[subgroup_i] ->
             random_elems(c, r.p, range, tar_elems, elem_start_src_i,
                          is_each_subgroup_matched, children, subgroup_i + 1)
      [] OTHER ->
             [p |-> r.p, k |-> "Ok",
              matched |-> [is_each_subgroup_matched EXCEPT ![subgroup_i] = TRUE],
              children |-> DropEmptyNodes(r.v) \o children]

\* one alternative, after parse_group returned r
random_elem_step(c, range, tar_elems, elem_start_src_i, is_each_subgroup_matched, children, subgroup_i, r) ==
    CASE r.k = "Err" ->
             [p |-> r.p, k |-> "Err", matched |-> is_each_subgroup_matched,
              children |-> children]
      [] r.k = "None" ->
             random_elems(c, [r.p EXCEPT !.src_i = elem_start_src_i], range, tar_elems,
                          elem_start_src_i, is_each_subgroup_matched, children,
                          subgroup_i + 1)
      [] is_each_subgroup_matched[subgroup_i] ->
             random_elems(c, r.p, range, tar_elems, elem_start_src_i,
                          is_each_subgroup_matched, children, subgroup_i + 1)
      [] OTHER ->
             [p |-> r.p, k |-> "Ok",
              matched |-> [is_each_subgroup_matched EXCEPT ![subgroup_i] = TRUE],
              children |-> children \o DropEmptyNodes(r.v)]

\* parse_raw_group: how the elements v of a matched child group join children
Attach(group, children, v, style) ==
    IF Len(group.sub_elems) # 1
    THEN IF v = <<>> THEN children
         ELSE IF is_expandable(style) THEN children \o v
         ELSE Append(children, from_node_args(v, style))
    ELSE v

\* the uuids of the sub-elements of a Choice child that are Groups
Alternatives(each_group) ==
    LET groups == SelectSeq(each_group.sub_elems, LAMBDA each_sub_elem : each_sub_elem.e = "Group")
    IN  [j \in 1 .. Len(groups) |-> groups[j].uuid]

\* history: the for over the alternatives of a Choice child, recorded like a
\* call; `first` is the number of calls that returned before it began
choice_for(group, each_group, p0, a) ==
    Call("Choice", each_group, p0, a,
         [first |-> Len(p0.calls), alternatives |-> Alternatives(each_group),
          single |-> Len(group.sub_elems) = 1])

parse_raw_group(c, p, group) == raw_elems(c, p, group, 1, <<>>)

\* the for over group.sub_elems, from the idx-th element on
raw_elems(c, p, group, idx, children) ==
    CASE idx > Len(group.sub_elems) -> Ret(p, "Some", children)
      [] group.sub_elems[idx].e = "Expression" ->
             raw_expr_step(c, p.src_i, group, idx, children,
                           parse_expr(c, p, group.sub_elems[idx]))
      [] group.sub_elems[idx].kind = "Choice" ->
             raw_choice_step(c, group, idx,
                             choice_for(group, group.sub_elems[idx], p,
                                        choice_alts(c, p, group, group.sub_elems[idx], 1,
                                                    p.src_i, children)))
      [] OTHER ->
             raw_group_step(c, p.src_i, group, idx, children,
                            parse_group(c, p, group.sub_elems[idx].elem_order,
                                        group.sub_elems[idx]))

\* RuleElement::Expression with a match that takes Err(()) for Ok(None) in
\* place of the ? operator
raw_expr_step_recovering(c, start_src_i, group, idx, children, r) ==
    CASE r.k = "Some" -> raw_elems(c, r.p, group, idx + 1, children \o DropEmptyNodes(r.v))
      [] OTHER -> Ret([r.p EXCEPT !.src_i = start_src_i], "None", <<>>)

\* RuleElement::Expression, after parse_expr returned r
raw_expr_step(c, start_src_i, group, idx, children, r) ==
    CASE r.k = "Err" -> r
      [] r.k = "None" -> Ret([r.p EXCEPT !.src_i = start_src_i], "None", <<>>)
      [] OTHER -> raw_elems(c, r.p, group, idx + 1, children \o DropEmptyNodes(r.v))

\* parse_raw_group with `self.src_i = start_src_i` missing after an
\* alternative that returned None
choice_step_unrestored(c, p, group, each_group, j, start_src_i, children, r) ==
    CASE j > Len(each_group.sub_elems) -> Ret(p, "None", <<>>)
      [] each_group.sub_elems[j].e # "Group" ->
             choice_alts(c, p, group, each_group, j + 1, start_src_i, children)
      [] r.k = "Err" -> r
      [] r.k = "None" ->
             choice_alts(c, r.p, group, each_group, j + 1, start_src_i, children)
      [] OTHER -> Ret(r.p, "Some",
                      Attach(group, children, r.v,
                             each_group.sub_elems[j].ast_reflection_style))

\* RuleGroupKind::Choice, after the for over the alternatives ended with a
raw_choice_step(c, group, idx, a) ==
    CASE a.k = "Some" -> raw_elems(c, a.p, group, idx + 1, a.v)
      [] OTHER -> a

\* RuleGroupKind::Sequence, after parse_group returned r
raw_group_step(c, start_src_i, group, idx, children, r) ==
    CASE r.k = "Err" -> r
      [] r.k = "None" -> Ret([r.p EXCEPT !.src_i = start_src_i], "None", <<>>)
      [] OTHER -> raw_elems(c, r.p, group, idx + 1,
                            Attach(group, children, r.v,
                                   group.sub_elems[idx].ast_reflection_style))

\* the for over the alternatives of a Choice child, from the j-th on
choice_alts(c, p, group, each_group, j, start_src_i, children) ==
    choice_step(c, p, group, each_group, j, start_src_i, children,
                parse_group(c, p, each_group.elem_order, each_group.sub_elems[j]))

\* one alternative, r being what parse_group returns
choice_step(c, p, group, each_group, j, start_src_i, children, r) ==
    CASE j > Len(each_group.sub_elems) -> Ret(p, "None", <<>>)
      [] each_group.sub_elems[j].e # "Group" ->
             choice_alts(c, p, group, each_group, j + 1, start_src_i, children)
      [] r.k = "Err" -> r
      [] r.k = "None" ->
             choice_alts(c, [r.p EXCEPT !.src_i = start_src_i], group, each_group,
                         j + 1, start_src_i, children)
      [] OTHER -> Ret(r.p, "Some",
                      Attach(group, children, r.v,
                             each_group.sub_elems[j].ast_reflection_style))

\* parse_loop_expr, once its loop has returned
parse_loop_expr(expr, p0, looped) ==
    Call("parse_loop_expr", expr, p0, Ret(looped.p, looped.k, looped.v), [n |-> looped.n])

\* parse_lookahead_expr that sets src_i to the start of the input in place
\* of start_src_i
lookahead_expr_rewound(expr, start_src_i, r) ==
    Opt([r.p EXCEPT !.src_i = 0],
        (r.k = "Some") = (expr.lookahead_kind = "Positive"), <<>>)

\* parse_lookahead_expr, the else branch after the inner match returned r
lookahead_expr_result(expr, start_src_i, r) ==
    Opt([r.p EXCEPT !.src_i = start_src_i],
        (r.k = "Some") = (expr.lookahead_kind = "Positive"), <<>>)

\* parse_lookahead_expr, once parse_loop_expr has returned r
parse_lookahead_expr(expr, p0, r) ==
    Call("parse_lookahead_expr", expr, p0,
         IF expr.lookahead_kind = "None" THEN r
         ELSE lookahead_expr_result(expr, p0.src_i, r),
         [inner_k |-> r.k, inner_v |-> r.v, inner_i |-> r.p.src_i])

ExprFns == <<"parse_loop_expr", "parse_lookahead_expr", "parse_expr">>

\* parse_expr, looped being what the loop of parse_loop_expr returns
expr_result(expr, p, looped) ==
    CASE InvalidLoopRange(expr.loop_range) ->
             Unwind(ExprFns, expr, p, Fail(p, "InvalidLoopRange"), 0)
      [] looped.k = "Err" ->
             Unwind(ExprFns, expr, p, Ret(looped.p, "Err", <<>>), looped.n)
      [] OTHER ->
             Call("parse_expr", expr, p,
                  parse_lookahead_expr(expr, p, parse_loop_expr(expr, p, looped)),
                  <<>>)

parse_expr(c, p, expr) == expr_result(expr, p, loop_expr_iter(c, p, expr, <<>>, 0))

\* the while of parse_loop_expr, from the iteration after loop_count successes
loop_expr_iter(c, p, expr, children, loop_count) ==
    loop_expr_step(c, p, expr, children, loop_count, parse_raw_expr(c, p, expr))

\* one iteration, r being what parse_raw_expr returns
loop_expr_step(c, p, expr, children, loop_count, r) ==
    CASE p.src_i >= CharCount(c) -> loop_end(p, expr.loop_range, children, loop_count)
      [] loop_count > loop_limit ->
             RetN(Fail(p, "TooLongRepetition").p, "Err", <<>>, loop_count)
      [] r.k = "Err" -> RetN(r.p, "Err", <<>>, loop_count)
      [] r.k = "None" -> loop_end(r.p, expr.loop_range, children, loop_count)
      [] expr.loop_range[2] # -1 /\ loop_count + 1 = expr.loop_range[2] ->
             RetN(r.p, "Some", children \o DropEmptyNodes(r.v), loop_count + 1)
      [] OTHER ->
             loop_expr_iter(c, r.p, expr, children \o DropEmptyNodes(r.v), loop_count + 1)

\* the loop of the JOIN branch over the elements the argument produced
RECURSIVE JoinElems(_)
JoinElems(result_elems) ==
    IF result_elems = <<>> THEN <<>>
    ELSE LET each_elem == Head(result_elems)
             joined == IF ~is_reflectable(each_elem.ast_reflection_style) THEN <<>>
                       ELSE IF each_elem.t = "Node" THEN join_child_leaf_values(each_elem)
                       ELSE each_elem.value
         IN  joined \o JoinElems(Tail(result_elems))

\* the ArgumentMap an IdWithArgs builds: HashMap::insert in index order, a
\* later binding of the same id replacing an earlier one
RECURSIVE BindingsUpTo(_, _, _)
BindingsUpTo(ids, groups, n) ==
    IF n = 0 THEN <<>>
    ELSE (ids[n] :> groups[n]) @@ BindingsUpTo(ids, groups, n - 1)

Bindings(ids, groups) == BindingsUpTo(ids, groups, Len(ids))

ArgumentMap(rule, generics_args, template_args) ==
    [generics_group |-> Bindings(rule.generics_arg_ids, generics_args),
     template_group |-> Bindings(rule.template_arg_ids, template_args)]

\* RuleExpressionKind::ArgId, the for over arg_maps: the maps that bind arg_id,
\* in the order the for visits them
BoundIn(maps, arg_id) ==
    SelectSeq(maps, LAMBDA each_arg_map : arg_id \in DOMAIN each_arg_map.generics_group)

\* RuleExpressionKind::ArgId, after parse_group returned res
arg_id_result(expr, res) ==
    CASE res.k # "Some" -> res
      [] ~is_reflectable(expr.ast_reflection_style) /\ res.v # <<>> ->
             Ret(res.p, "Some",
                 <<set_ast_reflection_style(res.v[1], expr.ast_reflection_style)>>)
      [] OTHER -> res

\* RuleExpressionKind::ArgId
arg_id_expr(c, p, expr) ==
    IF BoundIn(p.arg_maps, expr.value) = <<>> THEN Fail(p, "UnknownGenericsArgumentID")
    ELSE arg_id_result(expr,
             parse_group(c, p, Sequential,
                         BoundIn(p.arg_maps, expr.value)[1].generics_group[expr.value]))

\* RuleExpressionKind::CharClass
char_class_expr(c, p, expr) ==
    LET pattern == RegexNew(expr.value)
        cached == [p EXCEPT !.regex_map = @ \cup {expr.value}]
        tar_char == substring_src_content(c, p.src_i, 1)
    IN  IF CharCount(c) < p.src_i + 1 THEN Ret(p, "None", <<>>)
        ELSE IF ~pattern.ok THEN Fail(p, "InvalidCharClassFormat")
        ELSE IF tar_char[1] \in pattern.chars
        THEN Ret(add_source_index_by_string(cached, tar_char), "Some",
                 <<from_leaf_args(get_char_position(p), tar_char, expr.ast_reflection_style)>>)
        ELSE Ret(cached, "None", <<>>)

\* the JOIN branch, after parse_group returned r
join_result(expr, p0, r) ==
    CASE r.k = "Some" ->
             Call("JOIN", expr, p0,
                  Ret(r.p, "Some",
                      <<from_leaf_args(get_char_position(r.p), JoinElems(r.v),
                                       expr.ast_reflection_style)>>),
                  [inner_k |-> r.k, inner_v |-> r.v, inner_i |-> r.p.src_i])
      [] OTHER ->
             Call("JOIN", expr, p0, r,
                  [inner_k |-> r.k, inner_v |-> r.v, inner_i |-> r.p.src_i])

\* RuleExpressionKind::IdWithArgs with the rule id JOIN
join_expr(c, p, expr) ==
    CASE Len(expr.generics_args) # 1 -> Fail(p, "InvalidGenericsArgumentLength")
      [] Len(expr.template_args) # 0 -> Fail(p, "InvalidTemplateArgumentLength")
      [] OTHER -> join_result(expr, p, parse_group(c, p, Sequential, expr.generics_args[1]))

\* RuleExpressionKind::IdWithArgs that leaves the map it pushed on arg_maps
id_with_args_unpopped(c, p, expr) ==
    CASE expr.value = "JOIN" -> join_expr(c, p, expr)
      [] expr.value \in PRIMITIVE_RULE_NAMES -> Fail(p, "UncoveredPrimitiveRule")
      [] expr.value \notin DOMAIN c.rule_map.rule_map -> Fail(p, "UnknownRuleID")
      [] Len(expr.generics_args) # Len(c.rule_map.rule_map[expr.value].generics_arg_ids) ->
             Fail(p, "InvalidGenericsArgumentLength")
      [] Len(expr.template_args) # Len(c.rule_map.rule_map[expr.value].template_arg_ids) ->
             Fail(p, "InvalidTemplateArgumentLength")
      [] OTHER ->
             parse_id_expr(c,
                 [p EXCEPT !.arg_maps =
                      Append(@, ArgumentMap(c.rule_map.rule_map[expr.value],
                                            expr.generics_args, expr.template_args))],
                 expr)

\* RuleExpressionKind::IdWithArgs.  The two loops that fill the map cannot
\* fail once both lengths were checked.
id_with_args_expr(c, p, expr) ==
    CASE expr.value = "JOIN" -> join_expr(c, p, expr)
      [] expr.value \in PRIMITIVE_RULE_NAMES -> Fail(p, "UncoveredPrimitiveRule")
      [] expr.value \notin DOMAIN c.rule_map.rule_map -> Fail(p, "UnknownRuleID")
      [] Len(expr.generics_args) # Len(c.rule_map.rule_map[expr.value].generics_arg_ids) ->
             Fail(p, "InvalidGenericsArgumentLength")
      [] Len(expr.template_args) # Len(c.rule_map.rule_map[expr.value].template_arg_ids) ->
             Fail(p, "InvalidTemplateArgumentLength")
      [] OTHER ->
             [parse_id_expr(c,
                  [p EXCEPT !.arg_maps =
                       Append(@, ArgumentMap(c.rule_map.rule_map[expr.value],
                                             expr.generics_args, expr.template_args))],
                  expr)
              EXCEPT !.p.arg_maps = Pop(@)]

\* RuleExpressionKind::String
string_expr(c, p, expr) ==
    IF CharCount(c) < p.src_i + Len(expr.value) THEN Ret(p, "None", <<>>)
    ELSE IF substring_src_content(c, p.src_i, Len(expr.value)) = expr.value
    THEN Ret(add_source_index_by_string(p, expr.value), "Some",
             <<from_leaf_args(get_char_position(p), expr.value, expr.ast_reflection_style)>>)
    ELSE Ret(p, "None", <<>>)

\* RuleExpressionKind::Wildcard
wildcard_expr(c, p, expr) ==
    LET expr_value == substring_src_content(c, p.src_i, 1)
    IN  IF CharCount(c) < p.src_i + 1 THEN Ret(p, "None", <<>>)
        ELSE Ret(add_source_index_by_string(p, expr_value), "Some",
                 <<from_leaf_args(get_char_position(p), expr_value,
                                  expr.ast_reflection_style)>>)

parse_raw_expr(c, p, expr) ==
    Call("parse_raw_expr", expr, p,
         CASE p.src_i >= CharCount(c) -> Ret(p, "None", <<>>)
           [] expr.kind = "ArgId" -> arg_id_expr(c, p, expr)
           [] expr.kind = "CharClass" -> char_class_expr(c, p, expr)
           [] expr.kind = "Id" -> parse_id_expr(c, p, expr)
           [] expr.kind = "IdWithArgs" -> id_with_args_expr(c, p, expr)
           [] expr.kind = "String" -> string_expr(c, p, expr)
           [] expr.kind = "Wildcard" -> wildcard_expr(c, p, expr),
         <<>>)

\* parse_id_expr, the elements made of the element node_elem parse_rule returned
IdReflection(expr, node_elem) ==
    LET style == expr.ast_reflection_style
        sub_ast_reflection_style ==
            IF style.style = "Reflection"
            THEN Reflection(IF style.name = "" THEN expr.value ELSE style.name)
            ELSE style
        node == from_node_args(node_elem.sub_elems, sub_ast_reflection_style)
    IN  IF node_elem.t = "Leaf" THEN <<node_elem>>
        ELSE IF is_expandable(style) THEN node.sub_elems
        ELSE <<node>>

\* parse_id_expr, r being what parse_rule returns
id_result(expr, r) ==
    IF r.k = "Some" THEN Ret(r.p, "Some", IdReflection(expr, r.v[1])) ELSE r

parse_id_expr(c, p, expr) == id_result(expr, parse_rule(c, p, expr.value))

\* the loop of parse that removes every 0x0d, and the \0 appended after it
Preprocess(content) == SelectSeq(content, LAMBDA ch : ch # "CR") \o <<"NUL">>

Returned(p, ok, tree) == [p |-> p, ok |-> ok, tree |-> tree]

\* parse, after parse_rule returned r
parse_result(c, start_rule_id, r) ==
    CASE r.k = "Err" -> Returned(r.p, FALSE, <<>>)
      [] r.k = "None" -> Returned(Fail(r.p, "NoSucceededRule").p, FALSE, <<>>)
      [] r.p.src_i < CharCount(c) -> Returned(Fail(r.p, "NoSucceededRule").p, FALSE, <<>>)
      [] OTHER -> Returned(r.p, TRUE,
                           set_ast_reflection_style(r.v[1], Reflection(start_rule_id)))

\* what parse never changes while it runs
Context(rule_map, content, memo) ==
    [rule_map |-> rule_map, src_content |-> Preprocess(content),
     enable_memoization |-> memo]

\* SyntaxParser::parse
parse(console, rule_map, content, memo) ==
    IF Len(Preprocess(content)) = 0
    THEN Returned(NewParser(console), TRUE, from_node_args(<<>>, Reflection("")))
    ELSE parse_result(Context(rule_map, content, memo), rule_map.start_rule_id,
                      parse_rule(Context(rule_map, content, memo), NewParser(console),
                                 rule_map.start_rule_id))

----------------------------------------------------------------------------
(* The rule maps and input texts handed to parse.  The rule graph is built *)
(* by the grammar compiler, which is not modelled: a rule map below is     *)
(* any graph parse accepts, a rule being a root Sequence group over        *)
(* groups and expressions.                                                 *)

One == <<1, 1>>

Str(value) == Exp("String", value, One, "None", Reflection(""), <<>>, <<>>)
Dot == Exp("Wildcard", <<>>, One, "None", Reflection(""), <<>>, <<>>)
Class(value) == Exp("CharClass", value, One, "None", Reflection(""), <<>>, <<>>)
Id(rule_id) == Exp("Id", rule_id, One, "None", Reflection(""), <<>>, <<>>)
Arg(arg_id) == Exp("ArgId", arg_id, One, "None", Reflection(""), <<>>, <<>>)
IdWithArgs(rule_id, generics_args, template_args) ==
    Exp("IdWithArgs", rule_id, One, "None", Reflection(""), generics_args, template_args)
SeqG(uuid, sub_elems) ==
    Grp(uuid, "Sequence", Sequential, One, "None", Reflection(""), sub_elems)
Alt(uuid, sub_elems) ==
    Grp(uuid, "Choice", Sequential, One, "None", Reflection(""), sub_elems)
Unordered(uuid, min, max, sub_elems) ==
    Grp(uuid, "Sequence", Random(min, max), One, "None", Reflection(""), sub_elems)

Loop(elem, min, max) == [elem EXCEPT !.loop_range = <<min, max>>]
Look(elem, kind) == [elem EXCEPT !.lookahead_kind = kind]
Styled(elem, style) == [elem EXCEPT !.ast_reflection_style = style]

sa == Str(<<"a">>)
sb == Str(<<"b">>)
sc == Str(<<"c">>)
nl == Str(<<"LF">>)
\* "\0"#, the way a grammar consumes the end of the input
EOF == Styled(Str(<<"NUL">>), NoReflection)

Root(rule_id, sub_elems) == Rule(SeqG(rule_id, sub_elems), <<>>, <<>>)

RuleMap(rules) == [rule_map |-> rules, start_rule_id |-> "S"]

Only(rule) == RuleMap("S" :> rule)

RuleMaps == <<
    \* 1: S <- "a" "b"
    Only(Root("S", <<SeqG("g1", <<sa, sb>>)>>)),
    \* 2: S <- "a" / "b"
    Only(Root("S", <<Alt("g1", <<SeqG("g2", <<sa>>), SeqG("g3", <<sb>>)>>)>>)),
    \* 3: S <- "a"*
    Only(Root("S", <<SeqG("g1", <<Loop(sa, 0, -1)>>)>>)),
    \* 4: S <- !"a" .
    Only(Root("S", <<SeqG("g1", <<Look(sa, "Negative"), Dot>>)>>)),
    \* 5: S <- JOIN(("a" / "b")+)
    Only(Root("S", <<SeqG("g1", <<IdWithArgs("JOIN",
        <<Loop(SeqG("g2", <<Alt("g3", <<SeqG("g4", <<sa>>), SeqG("g5", <<sb>>)>>)>>), 1, -1)>>,
        <<>>)>>)>>)),
    \* 6: S <- {"a", "b", "c"} "\0"#
    Only(Root("S", <<Unordered("g1", 1, 1,
        <<SeqG("g2", <<SeqG("g3", <<sa>>), SeqG("g4", <<sb>>), SeqG("g5", <<sc>>)>>)>>), EOF>>)),
    \* 7: S <- {"a", "b"} "\0"#
    Only(Root("S", <<Unordered("g1", 1, 1,
        <<SeqG("g2", <<SeqG("g3", <<sa>>), SeqG("g4", <<sb>>)>>)>>), EOF>>)),
    \* 8: S <- ("a" "b")* "c"? "\0"#
    Only(Root("S", <<SeqG("g1", <<Loop(SeqG("g2", <<sa, sb>>), 0, -1), Loop(sc, 0, 1), EOF>>)>>)),
    \* 9: S <- R "a" "\0"# / R "b"? "\0"#,  R <- "\n"
    RuleMap("S" :> Root("S", <<Alt("g1", <<SeqG("g2", <<Id("R"), sa, EOF>>),
                                          SeqG("g3", <<Id("R"), Loop(sb, 0, 1), EOF>>)>>)>>)
         @@ "R" :> Root("R", <<SeqG("g4", <<nl>>)>>)),
    \* 10: S <- &("a" "b") .*
    Only(Root("S", <<SeqG("g1", <<Look(SeqG("g2", <<sa, sb>>), "Positive"), Loop(Dot, 0, -1)>>)>>)),
    \* 11: S <- !("a" X) [ab]+ "\0"#, X is no rule
    Only(Root("S", <<SeqG("g1", <<Look(SeqG("g2", <<sa, Id("X")>>), "Negative"),
                                Loop(Class("[ab]"), 1, -1), EOF>>)>>)),
    \* 12: S <- "a"{2,1} / "b" "\0"#
    Only(Root("S", <<Alt("g1", <<SeqG("g2", <<Loop(sa, 2, 1)>>), SeqG("g3", <<sb, EOF>>)>>)>>)),
    \* 13: S <- ("a"?)* "\0"#
    Only(Root("S", <<SeqG("g1", <<Loop(SeqG("g2", <<Loop(sa, 0, 1)>>), 0, -1), EOF>>)>>)),
    \* 14: S <- {"a", [} "\0"#, the second character class does not compile
    Only(Root("S", <<Unordered("g1", 1, 1,
        <<SeqG("g2", <<SeqG("g3", <<sa>>), SeqG("g4", <<Class("[")>>)>>)>>), EOF>>)),
    \* 15: S <- P<"a" / "\n"> "\0"#,  P<$A> <- $A+ "b"?
    RuleMap("S" :> Root("S", <<IdWithArgs("P",
                <<SeqG("g2", <<Alt("g3", <<SeqG("g4", <<sa>>), SeqG("g5", <<nl>>)>>)>>)>>, <<>>),
                EOF>>)
         @@ "P" :> Rule(SeqG("P", <<Loop(Arg("A"), 1, -1), Loop(sb, 0, 1)>>), <<"A">>, <<>>)),
    \* 16: S <- JOIN(R) "\0"#,  R <- "a" ("b"+)# "\n"?#
    RuleMap("S" :> Root("S", <<IdWithArgs("JOIN", <<SeqG("g2", <<Id("R")>>)>>, <<>>), EOF>>)
         @@ "R" :> Root("R", <<sa, Styled(SeqG("g3", <<Loop(sb, 1, -1)>>), NoReflection),
                               Styled(Loop(nl, 0, 1), NoReflection)>>)),
    \* 17: S <- ("a" "b"){2,3} / [^a] .*
    Only(Root("S", <<Alt("g1", <<SeqG("g2", <<Loop(SeqG("g3", <<sa, sb>>), 2, 3)>>),
                                 SeqG("g4", <<Class("[^a]"), Loop(Dot, 0, -1)>>)>>)>>)),
    \* 18: S <- ("a" / "\n")##+ !"b" .+
    Only(Root("S", <<SeqG("g1", <<
        Loop(Styled(SeqG("g2", <<Alt("g3", <<SeqG("g4", <<sa>>), SeqG("g5", <<nl>>)>>)>>),
                    Expansion), 1, -1),
        Look(sb, "Negative"), Loop(Dot, 1, -1)>>)>>)),
    \* 19: S <- "a"? $A "\0"#, no argument is bound
    Only(Root("S", <<SeqG("g1", <<Loop(sa, 0, 1), Arg("A"), EOF>>)>>)),
    \* 20: S <- "b" JOIN() / "a" "\0"#
    Only(Root("S", <<Alt("g1", <<SeqG("g2", <<sb, IdWithArgs("JOIN", <<>>, <<>>)>>),
                                 SeqG("g3", <<sa, EOF>>)>>)>>)),
    \* 21: S <- "a"{0,0} "\0"#
    Only(Root("S", <<Loop(sa, 0, 0), EOF>>)),
    \* 22: S <- P<"a"> "\0"#,  P<$A> <- Q<"b">,  Q<$A> <- $A
    RuleMap("S" :> Root("S", <<IdWithArgs("P", <<SeqG("g2", <<sa>>)>>, <<>>), EOF>>)
         @@ "P" :> Rule(SeqG("P", <<IdWithArgs("Q", <<SeqG("g3", <<sb>>)>>, <<>>)>>),
                        <<"A">>, <<>>)
         @@ "Q" :> Rule(SeqG("Q", <<Arg("A")>>), <<"A">>, <<>>)),
    \* 23: S <- P<"a" "b"> "\0"#,  P<$A> <- $A#
    RuleMap("S" :> Root("S", <<IdWithArgs("P", <<SeqG("g2", <<sa, sb>>)>>, <<>>), EOF>>)
         @@ "P" :> Rule(SeqG("P", <<Styled(Arg("A"), NoReflection)>>), <<"A">>, <<>>)),
    \* 24: S <- P<"b">? P<"a"> "\0"#,  P<$A> <- $A $B, no argument B is bound
    RuleMap("S" :> Root("S", <<Loop(IdWithArgs("P", <<SeqG("g2", <<sb>>)>>, <<>>), 0, 1),
                               IdWithArgs("P", <<SeqG("g3", <<sa>>)>>, <<>>), EOF>>)
         @@ "P" :> Rule(SeqG("P", <<Arg("A"), Arg("B")>>), <<"A">>, <<>>)),
    \* 25: S <- ("b"?) R "\0"#,  R <- "a"?
    RuleMap("S" :> Root("S", <<SeqG("g1", <<Loop(sb, 0, 1)>>), Id("R"), EOF>>)
         @@ "R" :> Root("R", <<Loop(sa, 0, 1)>>)),
    \* 26: S <- R? "a" "\0"#,  R <- "b"
    RuleMap("S" :> Root("S", <<Loop(Id("R"), 0, 1), sa, EOF>>)
         @@ "R" :> Root("R", <<sb>>))
>>

\* the code points the texts handed to the i-th rule map are made of: those
\* its rules name, or one that none names; \0 is appended by parse and no
\* text holds it
Alphabets == <<
    {"a", "b", "CR"}, {"a", "b", "c"}, {"a", "b"}, {"a", "b", "LF"}, {"a", "b", "c"},
    {"a", "b", "c"}, {"a", "b"}, {"a", "b", "c"}, {"a", "b", "LF"}, {"a", "b", "LF"},
    {"a", "b", "c"}, {"a", "b"}, {"a", "b"}, {"a", "b"}, {"a", "b", "LF"},
    {"a", "b", "LF"}, {"a", "b", "c"}, {"a", "b", "LF"}, {"a", "b"}, {"a", "b"},
    {"a", "b"}, {"a", "b"}, {"a", "b"}, {"a", "b"}, {"a", "b"}, {"a", "b"}
>>

Inputs(g) == UNION {[1 .. n -> Alphabets[g]] : n \in 0 .. MaxLen}

----------------------------------------------------------------------------
(* The caller: it calls parse, then parse again on the same rule map and   *)
(* text with the other setting of enable_memoization, handing both calls   *)
(* the same console.                                                       *)

Init ==
    /\ pc = "idle"
    /\ gram = 0
    /\ input = <<>>
    /\ enable_memoization = FALSE
    /\ src_content = <<>>
    /\ src_i = 0
    /\ src_line = 0
    /\ src_latest_line_i = 0
    /\ arg_maps = <<>>
    /\ rule_stack = <<>>
    /\ memoized_map = <<>>
    /\ cons = <<>>
    /\ result = [ok |-> TRUE, tree |-> <<>>]
    /\ calls = <<>>
    /\ cons_at_entry = <<>>
    /\ prev_result = [ok |-> TRUE, tree |-> <<>>]
    /\ parses = 0
    /\ w_loop_range = <<1, 1>>
    /\ w_body = <<>>
    /\ w_loop_count = 0
    /\ w_returned = ""

\* the state a call of parse leaves when it returns ret
Return(g, content, memo, ret) ==
    /\ gram' = g
    /\ input' = content
    /\ enable_memoization' = memo
    /\ src_content' = Preprocess(content)
    /\ src_i' = ret.p.src_i
    /\ src_line' = ret.p.src_line
    /\ src_latest_line_i' = ret.p.src_latest_line_i
    /\ arg_maps' = ret.p.arg_maps
    /\ rule_stack' = ret.p.rule_stack
    /\ memoized_map' = ret.p.memoized_map
    /\ cons' = ret.p.cons
    /\ result' = [ok |-> ret.ok, tree |-> ret.tree]
    /\ calls' = ret.p.calls
    /\ cons_at_entry' = cons
    /\ prev_result' = result
    /\ parses' = parses + 1
    /\ UNCHANGED <<w_loop_range, w_body, w_loop_count, w_returned>>

\* one call of SyntaxParser::parse
Run(g, content, memo) == Return(g, content, memo, parse(cons, RuleMaps[g], content, memo))

Parse(g, content, memo) ==
    /\ pc = "idle"
    /\ pc' = "returned"
    /\ Run(g, content, memo)

ParseAgain ==
    /\ pc = "returned"
    /\ parses < MaxParses
    /\ pc' = "returned"
    /\ Run(gram, input, ~enable_memoization)

Next ==
    \/ \E g \in 1 .. Len(RuleMaps) : \E content \in Inputs(g), memo \in BOOLEAN :
          Parse(g, content, memo)
    \/ ParseAgain

Spec == Init /\ [][Next]_vars

----------------------------------------------------------------------------
(* The line tracker on its own: a forward-only run, in which the evaluator *)
(* matches one leaf text after the other and nothing backtracks.  Here     *)
(* src_content is the text consumed so far.                                *)

\* the fields add_source_index_by_string and get_char_position use
Tracker == [src_i |-> src_i, src_line |-> src_line, src_latest_line_i |-> src_latest_line_i]

\* the leaf texts: every text of 1 .. MaxLen code points over "a" and 0x0a
LeafTexts == UNION {[1 .. n -> {"a", "LF"}] : n \in 1 .. MaxLen}

\* a String expression with value expr_str matches at the cursor
Consume(expr_str) ==
    /\ pc \in {"idle", "tracking"}
    /\ Len(src_content) + Len(expr_str) <= 2 * MaxLen
    /\ pc' = "tracking"
    /\ src_content' = src_content \o expr_str
    /\ src_i' = add_source_index_by_string(Tracker, expr_str).src_i
    /\ src_line' = add_source_index_by_string(Tracker, expr_str).src_line
    /\ src_latest_line_i' = add_source_index_by_string(Tracker, expr_str).src_latest_line_i
    /\ UNCHANGED <<gram, input, enable_memoization, arg_maps, rule_stack, memoized_map,
                   cons, result, calls, cons_at_entry, prev_result, parses, w_loop_range,
                   w_body, w_loop_count, w_returned>>

TrackNext == \E expr_str \in LeafTexts : Consume(expr_str)

TrackSpec == Init /\ [][TrackNext]_vars

----------------------------------------------------------------------------
(* A loop wrapper on its own, one iteration of its while a step.  The      *)
(* element under the wrapper is a function of the cursor: at each cursor   *)
(* it succeeds without consuming, succeeds over one code point, does not   *)
(* match or fails hard.                                                    *)

BodyResults == {"Empty", "One", "None", "Err"}

\* the loop ranges: unbounded, bounded, {0,0} and one with min > max
LoopRanges == {<<0, -1>>, <<1, -1>>, <<0, 1>>, <<1, 2>>, <<0, 0>>, <<2, 1>>}

LoopInputs == UNION {[1 .. n -> {"a"}] : n \in 0 .. MaxLen}

\* `loop_count += 1`
next_loop_count_stuck(n) == n

next_loop_count(n) == n + 1

Leave(k, i, n, logs) == [k |-> k, src_i |-> i, loop_count |-> n, logs |-> logs]

\* both loop wrappers, where the body failed or the input ended
loop_leave(range, i, n) ==
    Leave(IF InRange(n, range[1], range[2]) THEN "Some" ELSE "None", i, n, <<>>)

\* the while of both loop wrappers: the condition and one iteration at cursor
\* i after n successes, r being what the element returns there
while_step(char_count, range, r, i, n) ==
    CASE i >= char_count -> loop_leave(range, i, n)
      [] n > loop_limit -> Leave("Err", i, n, <<"TooLongRepetition">>)
      [] r = "Err" -> Leave("Err", i, n, <<>>)
      [] r = "None" -> loop_leave(range, i, n)
      [] range[2] # -1 /\ next_loop_count(n) = range[2] ->
             Leave("Some", IF r = "One" THEN i + 1 ELSE i, next_loop_count(n), <<>>)
      [] OTHER -> Leave("", IF r = "One" THEN i + 1 ELSE i, next_loop_count(n), <<>>)

\* parse_loop_group or parse_loop_expr is called at the start of content
EnterLoop(range, content, behaviour) ==
    /\ pc = "idle"
    /\ src_content' = Preprocess(content)
    /\ w_loop_range' = range
    /\ w_body' = behaviour
    /\ pc' = IF InvalidLoopRange(range) THEN "looped" ELSE "looping"
    /\ w_returned' = IF InvalidLoopRange(range) THEN "Err" ELSE ""
    /\ cons' = IF InvalidLoopRange(range) THEN Append(cons, "InvalidLoopRange") ELSE cons
    /\ UNCHANGED <<gram, input, enable_memoization, src_i, src_line, src_latest_line_i,
                   arg_maps, rule_stack, memoized_map, result, calls, cons_at_entry,
                   prev_result, parses, w_loop_count>>

\* the step of the wrapper in the current state
WhileStep ==
    while_step(Len(src_content), w_loop_range,
               IF src_i < Len(src_content) THEN w_body[src_i + 1] ELSE "None", src_i,
               w_loop_count)

\* the while condition and, where it holds, one iteration
Iterate ==
    /\ pc = "looping"
    /\ pc' = IF WhileStep.k = "" THEN "looping" ELSE "looped"
    /\ w_returned' = WhileStep.k
    /\ src_i' = WhileStep.src_i
    /\ w_loop_count' = WhileStep.loop_count
    /\ cons' = cons \o WhileStep.logs
    /\ UNCHANGED <<gram, input, enable_memoization, src_content, src_line,
                   src_latest_line_i, arg_maps, rule_stack, memoized_map, result, calls,
                   cons_at_entry, prev_result, parses, w_loop_range, w_body>>

LoopNext ==
    \/ \E range \in LoopRanges, content \in LoopInputs :
          \E behaviour \in [1 .. Len(content) + 1 -> BodyResults] :
              EnterLoop(range, content, behaviour)
    \/ Iterate

\* the program runs the loop to its return: an iteration that can be made is made
LoopSpec == Init /\ [][LoopNext]_vars /\ WF_vars(Iterate)

----------------------------------------------------------------------------
(* Properties of parse and of the private functions, stated over the state *)
(* a call of parse leaves and over the history of calls.                   *)

\* the record of the call of parse_rule on the start rule: the last call to return
StartRuleCall == calls[Len(calls)]

\* the input of the last call without its 0x0d code points
Stripped == SelectSeq(input, LAMBDA ch : ch # "CR")

\* the values of all Leaves below a sequence of elements, depth first
RECURSIVE LeafText(_)
LeafTextOf(elem) == IF elem.t = "Leaf" THEN elem.value ELSE LeafText(elem.sub_elems)
LeafText(elems) ==
    IF elems = <<>> THEN <<>> ELSE LeafTextOf(Head(elems)) \o LeafText(Tail(elems))

\* the source text a call went over
Consumed(call) == SubSeq(src_content, call.entry.src_i + 1, call.exit.src_i)

CallsOf(fns) == {i \in 1 .. Len(calls) : calls[i].fn \in fns}

\* C1: parse returns success whenever the start rule matched and the cursor
\* then stands behind every code point of the CR-stripped input; the
\* appended sentinel need not be consumed, so S <- "a" "b" accepts "ab".
C1_SuccessWhenInputConsumed ==
    (pc = "returned" /\ StartRuleCall.k = "Some"
        /\ StartRuleCall.exit.src_i >= Len(Stripped))
    => result.ok

\* C2: whenever parse_group, parse_expr or parse_rule returns no-match, src_i
\* equals its value at entry to that call, at every nesting level.
C2_NoMatchRestoresCursor ==
    \A i \in CallsOf({"parse_group", "parse_expr", "parse_rule"}) :
        calls[i].k = "None" => calls[i].exit.src_i = calls[i].entry.src_i

\* C3: when parse succeeds, the values of all Leaves of the returned tree,
\* concatenated depth first, are the input text from index 0 up to the final
\* cursor position.
C3_LeavesSpellConsumedInput ==
    (pc = "returned" /\ result.ok)
    => LeafTextOf(result.tree) = SubSeq(src_content, 1, src_i)

\* whether a rule element holds an ArgId or an IdWithArgs expression
RECURSIVE UsesArgs(_)
UsesArgs(elem) ==
    IF elem.e = "Group"
    THEN \E i \in 1 .. Len(elem.sub_elems) : UsesArgs(elem.sub_elems[i])
    ELSE elem.kind \in {"ArgId", "IdWithArgs"}

ArgumentFree(rule_map) ==
    \A rule_id \in DOMAIN rule_map.rule_map : ~UsesArgs(rule_map.rule_map[rule_id].group)

\* C4: on a rule map without ArgId and IdWithArgs, parse with and without
\* enable_memoization returns the same outcome and, on success, the same
\* tree, leaf positions (index, line, column) included.
C4_MemoizationKeepsResult ==
    (pc = "returned" /\ parses >= 2 /\ ArgumentFree(RuleMaps[gram]))
    => result = prev_result

\* the alternatives of the Random group of rule maps 6 and 7
RandomAlternatives(g) == RuleMaps[g].rule_map["S"].group.sub_elems[1].sub_elems[1].sub_elems

\* text is one match of each alternative, in some order
OneOfEach(text, alternatives) ==
    /\ Len(text) = Len(alternatives)
    /\ \A j \in 1 .. Len(alternatives) :
          Cardinality({k \in 1 .. Len(text) :
                          <<text[k]>> = alternatives[j].sub_elems[1].value}) = 1

\* C5: a Random group succeeds only on input that is, in some order, one
\* match of each alternative, with the children in input order; when it
\* returns no-match the cursor is back at its position at entry.
C5_RandomMatchesEachOnce ==
    (pc = "returned" /\ gram \in {6, 7})
    => \A i \in CallsOf({"parse_element_order_group"}) :
          /\ calls[i].k = "Some" =>
                /\ OneOfEach(Consumed(calls[i]), RandomAlternatives(gram))
                /\ LeafText(calls[i].v) = Consumed(calls[i])
          /\ calls[i].k = "None" => calls[i].exit.src_i = calls[i].entry.src_i

\* the calls of a lookahead wrapper on an element with a lookahead kind whose
\* inner match returned Ok
Lookaheads ==
    {i \in CallsOf({"parse_lookahead_group", "parse_lookahead_expr"}) :
        calls[i].elem.lookahead_kind # "None" /\ calls[i].aux.inner_k # "Err"}

\* C6: a lookahead wrapper on a Positive or Negative element leaves src_i at
\* its value at entry whether the inner match succeeds or fails, returns
\* success exactly when (inner match succeeded) = (kind is Positive) and
\* no-match otherwise, and never returns children.
C6_LookaheadKeepsCursor ==
    \A i \in Lookaheads :
        /\ calls[i].exit.src_i = calls[i].entry.src_i
        /\ calls[i].k =
              IF (calls[i].aux.inner_k = "Some") = (calls[i].elem.lookahead_kind = "Positive")
              THEN "Some" ELSE "None"
        /\ calls[i].v = <<>>

\* a positive lookahead group whose inner match consumed input and produced
\* children has returned
C6_LookaheadOverInput ==
    \E i \in Lookaheads :
        /\ calls[i].fn = "parse_lookahead_group"
        /\ calls[i].elem.lookahead_kind = "Positive"
        /\ calls[i].aux.inner_k = "Some"
        /\ calls[i].aux.inner_i > calls[i].entry.src_i
        /\ calls[i].aux.inner_v # <<>>
        /\ calls[i].k = "Some"

\* C7: parse returns failure iff it appended exactly one record to the
\* console, and success appends none; a call that returns no-match appended
\* nothing; once a call returned Err every call that returns after it returns
\* Err, and so does parse.
C7_FailureIffOneDiagnostic ==
    pc = "returned" =>
        /\ SubSeq(cons, 1, Len(cons_at_entry)) = cons_at_entry
        /\ result.ok => Len(cons) = Len(cons_at_entry)
        /\ ~result.ok => Len(cons) = Len(cons_at_entry) + 1
        /\ \A i \in 1 .. Len(calls) :
              /\ calls[i].k = "None" => calls[i].exit.n_logs = calls[i].entry.n_logs
              /\ calls[i].k = "Err" =>
                    /\ ~result.ok
                    /\ \A j \in i .. Len(calls) : calls[j].k = "Err"

\* a hard error raised inside a negative lookahead has reached the caller of
\* parse
C7_ErrorInsideNegativeLookahead ==
    /\ pc = "returned"
    /\ ~result.ok
    /\ Len(cons) = Len(cons_at_entry) + 1
    /\ \E i \in CallsOf({"parse_lookahead_group"}) :
          calls[i].elem.lookahead_kind = "Negative" /\ calls[i].k = "Err"

\* C8: the sentinel \0 is in the value of no Leaf of a returned tree, and a
\* Wildcard, CharClass or String expression evaluated with the cursor at the
\* position of the sentinel does not match.
C8_SentinelNeverMatched ==
    /\ (pc = "returned" /\ result.ok) =>
          \A k \in 1 .. Len(LeafTextOf(result.tree)) : LeafTextOf(result.tree)[k] # "NUL"
    /\ \A i \in CallsOf({"parse_raw_expr"}) :
          (calls[i].elem.kind \in {"Wildcard", "CharClass", "String"}
              /\ calls[i].entry.src_i = Len(src_content) - 1)
          => calls[i].k # "Some"

\* C9: on an input without code points after CR stripping, parse returns
\* success with a root Node without children, calls no private function and
\* appends nothing to the console.
C9_EmptyInputGivesEmptyTree ==
    (pc = "returned" /\ Stripped = <<>>)
    => /\ result = [ok |-> TRUE, tree |-> from_node_args(<<>>, Reflection(""))]
       /\ calls = <<>>
       /\ cons = cons_at_entry

\* the values of the reflectable Leaves of a sequence of elements that are
\* reached through reflectable Nodes only
RECURSIVE ReflectableText(_)
ReflectableTextOf(elem) ==
    IF ~is_reflectable(elem.ast_reflection_style) THEN <<>>
    ELSE IF elem.t = "Leaf" THEN elem.value
    ELSE ReflectableText(elem.sub_elems)
ReflectableText(elems) ==
    IF elems = <<>> THEN <<>>
    ELSE ReflectableTextOf(Head(elems)) \o ReflectableText(Tail(elems))

\* C10: a successful JOIN returns exactly one Leaf, whose value is the
\* concatenation of the values of the reflectable leaves of the matched
\* argument that are reached through reflectable Nodes only.
C10_JoinTakesReflectableLeaves ==
    \A i \in CallsOf({"JOIN"}) :
        calls[i].k = "Some" =>
            /\ Len(calls[i].v) = 1
            /\ calls[i].v[1].t = "Leaf"
            /\ calls[i].v[1].value = ReflectableText(calls[i].aux.inner_v)

\* the calls of the two loop wrappers
Loops == CallsOf({"parse_loop_group", "parse_loop_expr"})

\* C11: no loop wrapper, of a group or of an expression, completes more than
\* loop_limit successful iterations of its body.
C11_LoopLimitBoundsIterations ==
    \A i \in Loops : calls[i].aux.n <= loop_limit

\* the calls of parse_group on the alternatives of the i-th recorded Choice,
\* in the order they returned
Attempts(i) ==
    SelectSeq([n \in 1 .. i - 1 - calls[i].aux.first |-> calls[i].aux.first + n],
              LAMBDA j : /\ calls[j].fn = "parse_group"
                         /\ \E n \in 1 .. Len(calls[i].aux.alternatives) :
                               calls[j].elem.uuid = calls[i].aux.alternatives[n])

\* C12: the alternatives of a Choice child are attempted in declaration
\* order, each from the cursor the choice began at; the first one that
\* succeeds ends the choice and gives its result, and the choice is a
\* no-match only when every alternative was one.
C12_ChoiceIsOrdered ==
    \A i \in CallsOf({"Choice"}) :
        LET attempts == Attempts(i)
            last == calls[attempts[Len(attempts)]]
        IN  /\ Len(attempts) <= Len(calls[i].aux.alternatives)
            /\ \A n \in 1 .. Len(attempts) :
                  /\ calls[attempts[n]].elem.uuid = calls[i].aux.alternatives[n]
                  /\ calls[attempts[n]].entry.src_i = calls[i].entry.src_i
                  /\ n < Len(attempts) => calls[attempts[n]].k = "None"
            /\ calls[i].k = "None" =>
                  /\ Len(attempts) = Len(calls[i].aux.alternatives)
                  /\ \A n \in 1 .. Len(attempts) : calls[attempts[n]].k = "None"
            /\ calls[i].k # "None" =>
                  /\ attempts # <<>>
                  /\ last.k = calls[i].k
                  /\ last.exit.src_i = calls[i].exit.src_i
                  /\ (calls[i].k = "Some" /\ calls[i].aux.single) => calls[i].v = last.v

\* a Choice has returned the result of its second alternative, after its
\* first alternative consumed input and returned no-match
C12_SecondAlternativeTaken ==
    \E i \in CallsOf({"Choice"}) :
        /\ calls[i].k = "Some"
        /\ Len(Attempts(i)) = 2
        /\ calls[Attempts(i)[1]].k = "None"
        /\ calls[Attempts(i)[1]].exit.src_i > calls[Attempts(i)[1]].entry.src_i
        /\ calls[Attempts(i)[2]].v # <<>>

\* C13: a loop wrapper returns success only with a number n of successful
\* iterations in [min, max], never iterates beyond a finite max, repeats
\* until the body fails or the input ends, and returns no-match when it
\* stops with n outside [min, max]; a repeated String yields one Leaf per
\* iteration.
C13_LoopCountInRange ==
    \A i \in Loops :
        LET n == calls[i].aux.n
            min_count == calls[i].elem.loop_range[1]
            max_count == calls[i].elem.loop_range[2]
        IN  calls[i].k # "Err" =>
                /\ calls[i].k = "Some" <=> InRange(n, min_count, max_count)
                /\ max_count # -1 => n <= max_count
                /\ (calls[i].fn = "parse_loop_expr" /\ (max_count = -1 \/ n < max_count)) =>
                      \/ calls[i].exit.src_i >= Len(src_content)
                      \/ calls[i - 1].fn = "parse_raw_expr" /\ calls[i - 1].k = "None"
                /\ (calls[i].k = "Some" /\ calls[i].elem.e = "Expression"
                        /\ calls[i].elem.kind = "String") => Len(calls[i].v) = n

\* the position indexes of the reflectable Leaves below a sequence of
\* elements, depth first, left to right
RECURSIVE ReflectableLeafIndexes(_)
ReflectableLeafIndexesOf(elem) ==
    IF elem.t = "Node" THEN ReflectableLeafIndexes(elem.sub_elems)
    ELSE IF is_reflectable(elem.ast_reflection_style) THEN <<elem.pos.index>>
    ELSE <<>>
ReflectableLeafIndexes(elems) ==
    IF elems = <<>> THEN <<>>
    ELSE ReflectableLeafIndexesOf(Head(elems)) \o ReflectableLeafIndexes(Tail(elems))

NonDecreasing(indexes) ==
    \A k \in 1 .. Len(indexes) - 1 : indexes[k] <= indexes[k + 1]

\* C14: in the tree of a successful parse the reflectable Leaves, visited
\* depth first and left to right, have non-decreasing position indexes.
C14_LeavesInInputOrder ==
    (pc = "returned" /\ result.ok)
    => NonDecreasing(ReflectableLeafIndexesOf(result.tree))

\* a parse has succeeded on a Random group whose alternatives matched in an
\* order other than the declared one
C14_RandomOrderTree ==
    /\ pc = "returned"
    /\ result.ok
    /\ gram = 6
    /\ input = <<"b", "c", "a">>
    /\ ReflectableLeafIndexesOf(result.tree) = <<0, 1, 2>>

\* the index just behind the last 0x0a of text, 0 when it holds none
AfterLastNewLine(text) ==
    IF \E k \in 1 .. Len(text) : text[k] = "LF"
    THEN CHOOSE k \in 1 .. Len(text) :
            text[k] = "LF" /\ \A m \in k + 1 .. Len(text) : text[m] # "LF"
    ELSE 0

\* C15: on a forward-only run get_char_position reports as line the number
\* of 0x0a code points consumed so far and as column the number of code
\* points consumed since the last of them.
C15_LineAndColumnOfCursor ==
    pc = "tracking" =>
        /\ get_char_position(Tracker).index = Len(src_content)
        /\ get_char_position(Tracker).line =
              Cardinality({k \in 1 .. Len(src_content) : src_content[k] = "LF"})
        /\ get_char_position(Tracker).column = Len(src_content) - AfterLastNewLine(src_content)

\* C16: after parse_group or parse_expr returned success, with or without a
\* memo hit, src_i is not less than it was at entry to that call.
C16_SuccessNeverMovesBack ==
    \A i \in CallsOf({"parse_group", "parse_expr"}) :
        calls[i].k = "Some" => calls[i].exit.src_i >= calls[i].entry.src_i

\* parse_group has returned success for the same group at the same cursor
\* twice, first by matching and then on a memo hit, and moved the cursor
C16_MatchedThenMemoHit ==
    \E i, j \in CallsOf({"parse_group"}) :
        /\ i < j /\ ~calls[i].aux.hit /\ calls[j].aux.hit
        /\ calls[i].elem.uuid = calls[j].elem.uuid
        /\ calls[i].k = "Some" /\ calls[j].k = "Some"
        /\ calls[i].entry.src_i = calls[j].entry.src_i
        /\ calls[j].exit.src_i > calls[j].entry.src_i

\* the parse_raw_expr records of ArgId expressions that matched their group
MatchedArgIds ==
    {i \in CallsOf({"parse_raw_expr"}) : calls[i].elem.kind = "ArgId" /\ calls[i].k = "Some"}

\* the group the most recently pushed map that binds arg_id gives it
InnermostBinding(maps, arg_id) ==
    LET binding == {j \in 1 .. Len(maps) : arg_id \in DOMAIN maps[j].generics_group}
    IN  maps[CHOOSE j \in binding : \A other \in binding : other <= j].generics_group[arg_id]

\* C17: the group an ArgId expression matches is the one bound to its id by
\* the most recently pushed argument map that binds it.
C17_InnermostBindingUsed ==
    \A i \in MatchedArgIds :
        /\ calls[i - 1].fn = "parse_group"
        /\ calls[i - 1].elem.uuid =
               InnermostBinding(calls[i].entry.arg_maps, calls[i].elem.value).uuid

\* C18: a non-reflectable ArgId expression whose group produced one element
\* or more returns all of them in order, the first with the reflection of
\* the expression.
C18_HiddenArgIdKeepsEveryElement ==
    \A i \in MatchedArgIds :
        ~is_reflectable(calls[i].elem.ast_reflection_style) /\ calls[i - 1].v # <<>> =>
            /\ Len(calls[i].v) = Len(calls[i - 1].v)
            /\ calls[i].v[1] = set_ast_reflection_style(calls[i - 1].v[1],
                                                        calls[i].elem.ast_reflection_style)
            /\ \A j \in 2 .. Len(calls[i - 1].v) : calls[i].v[j] = calls[i - 1].v[j]

\* the reflection parse_rule chooses for the rule group: that of its first
\* sub-element where it is a group, the rule group's own otherwise
ChosenReflection(rule_group) ==
    IF rule_group.sub_elems # <<>> /\ rule_group.sub_elems[1].e = "Group"
    THEN rule_group.sub_elems[1].ast_reflection_style
    ELSE rule_group.ast_reflection_style

RuleGroupOf(call) == RuleMaps[gram].rule_map[call.elem.rule_id].group

\* C19: the Node parse_rule returns on success has the chosen reflection,
\* Reflection(rule_id) in place of Reflection(""), and so it is reflectable
\* whenever the chosen reflection was Reflection("").
C19_RuleNodeNamedAfterRule ==
    \A i \in CallsOf({"parse_rule"}) :
        calls[i].k = "Some" =>
            /\ calls[i].v[1].t = "Node"
            /\ calls[i].v[1].ast_reflection_style =
                   IF ChosenReflection(RuleGroupOf(calls[i])) = Reflection("")
                   THEN Reflection(calls[i].elem.rule_id)
                   ELSE ChosenReflection(RuleGroupOf(calls[i]))

\* the parse_raw_expr records of IdWithArgs expressions that invoked their rule
Invocations ==
    {i \in CallsOf({"parse_raw_expr"}) :
        calls[i].elem.kind = "IdWithArgs" /\ calls[i - 1].fn = "parse_rule"}

\* C20: parse_raw_expr returns with arg_maps as it was at entry, whatever the
\* result; an IdWithArgs expression hands parse_rule the stack of its entry
\* with one map pushed on it, and no map is left once parse has returned.
C20_ArgMapsBalanced ==
    /\ \A i \in CallsOf({"parse_raw_expr"}) : calls[i].exit.arg_maps = calls[i].entry.arg_maps
    /\ \A i \in Invocations :
          /\ Len(calls[i - 1].entry.arg_maps) = Len(calls[i].entry.arg_maps) + 1
          /\ SubSeq(calls[i - 1].entry.arg_maps, 1, Len(calls[i].entry.arg_maps)) =
                 calls[i].entry.arg_maps
    /\ arg_maps = <<>>

\* a parameterized rule has returned no match to one IdWithArgs expression
\* and a hard error to the next, each having pushed a map that binds A
C20_InvokedWithoutSuccess ==
    /\ \E i \in Invocations : calls[i].k = "None" /\ calls[i - 1].k = "None"
    /\ \E i \in Invocations :
          /\ calls[i].k = "Err" /\ calls[i - 1].k = "Err"
          /\ "A" \in DOMAIN calls[i - 1].entry.arg_maps[1].generics_group

\* the parse_rule records, of rule ids the rule map has and has not
RuleCalls == CallsOf({"parse_rule"})

KnownRuleCalls == {i \in RuleCalls : calls[i].elem.rule_id \in DOMAIN RuleMaps[gram].rule_map}

\* the frame parse_rule pushes in the call recorded as call
FrameOf(call) == <<get_char_position(call.entry), call.elem.rule_id>>

\* what parse_rule does to the rule stack in the call recorded as calls[i]:
\* the rule group is matched on the stack of entry with one frame (position,
\* rule id) pushed, and the stack the match left is popped once on success
\* and returned as it is otherwise
PushesOnePopsOnSuccess(i) ==
    /\ calls[i - 1].fn = "parse_group"
    /\ calls[i - 1].entry.rule_stack = Append(calls[i].entry.rule_stack, FrameOf(calls[i]))
    /\ calls[i].k = "Some" =>
           /\ calls[i - 1].exit.rule_stack # <<>>
           /\ calls[i].exit.rule_stack = Pop(calls[i - 1].exit.rule_stack)
    /\ calls[i].k # "Some" => calls[i].exit.rule_stack = calls[i - 1].exit.rule_stack

\* an unknown rule id: one diagnostic, no frame
UnknownRulePushesNothing(i) ==
    /\ calls[i].k = "Err"
    /\ calls[i].exit.rule_stack = calls[i].entry.rule_stack
    /\ calls[i].exit.n_logs = calls[i].entry.n_logs + 1

Uncached == {i \in CallsOf({"parse_group"}) : ~calls[i].aux.hit /\ calls[i].k # "Err"}

Entries == {memoized_map[n] : n \in 1 .. Len(memoized_map)}

\* C22: every entry of memoized_map has a length of 1 or more and ends
\* within the input with its sentinel; with memoization a call that moved
\* the cursor is stored under (group uuid, start index) with the length it
\* moved, and a call that left the cursor where it was is not stored.
C22_MemoHoldsMovesOnly ==
    /\ \A entry \in Entries :
          entry.src_len >= 1 /\ entry.src_i + entry.src_len <= Len(src_content)
    /\ ~enable_memoization => memoized_map = <<>>
    /\ \A i \in Uncached :
          LET found == MemoFind(memoized_map, calls[i].elem.uuid, calls[i].entry.src_i)
          IN  IF enable_memoization /\ calls[i].exit.src_i # calls[i].entry.src_i
              THEN /\ Len(found) = 1
                   /\ found[1].src_len = calls[i].exit.src_i - calls[i].entry.src_i
                   /\ found[1].k = calls[i].k /\ found[1].v = calls[i].v
              ELSE found = <<>>

\* with memoization, a lookahead group whose match moved the cursor has left
\* nothing in memoized_map, which holds a success and a no match
C22_LookaheadNotStored ==
    /\ enable_memoization
    /\ \E i \in CallsOf({"parse_lookahead_group"}) :
          /\ calls[i].elem.lookahead_kind # "None"
          /\ calls[i].aux.inner_i > calls[i].entry.src_i
          /\ MemoFind(memoized_map, calls[i].elem.uuid, calls[i].entry.src_i) = <<>>
    /\ \E entry \in Entries : entry.k = "Some"

\* C23: a loop wrapper that was entered returns, whatever its element does:
\* its body fails, max is reached, the input ends, or TooLongRepetition is
\* emitted after the loop_limit check.
C23_LoopReturns == (pc = "looping") ~> (pc = "looped")

\* an unbounded repetition whose body succeeded without consuming input has
\* returned with TooLongRepetition, the cursor where it was
C23_EmptyBodyStopped ==
    /\ pc = "looped" /\ w_returned = "Err"
    /\ w_loop_range[2] = -1
    /\ src_i = 0 /\ w_loop_count > loop_limit
    /\ cons = <<"TooLongRepetition">>

\* no Node among elems or below them has an empty list of children
RECURSIVE NoEmptyNode(_)
NoEmptyNodeIn(elem) == elem.t = "Node" => elem.sub_elems # <<>> /\ NoEmptyNode(elem.sub_elems)
NoEmptyNode(elems) == \A n \in 1 .. Len(elems) : NoEmptyNodeIn(elems[n])

\* C24: in the tree of a successful parse no Node but the root has an empty
\* list of children.
C24_NoEmptyNodeBelowRoot ==
    pc = "returned" /\ result.ok => NoEmptyNode(result.tree.sub_elems)

\* a rule below the start rule has matched without consuming and returned a
\* Node without children, and parse has succeeded
C24_EmptyRuleNodeDropped ==
    /\ pc = "returned" /\ result.ok
    /\ \E i \in 1 .. Len(calls) - 1 :
          /\ calls[i].fn = "parse_rule" /\ calls[i].k = "Some"
          /\ calls[i].v[1].sub_elems = <<>>

\* all Leaves among elems and below them, depth first
RECURSIVE TreeLeaves(_)
TreeLeavesOf(elem) == IF elem.t = "Leaf" THEN <<elem>> ELSE TreeLeaves(elem.sub_elems)
TreeLeaves(elems) ==
    IF elems = <<>> THEN <<>> ELSE TreeLeavesOf(Head(elems)) \o TreeLeaves(Tail(elems))

\* the Leaves of the tree the last call of parse returned
ReturnedLeaves == {TreeLeaves(<<result.tree>>)[n] : n \in 1 .. Len(TreeLeaves(<<result.tree>>))}

\* the parse_raw_expr records of String, CharClass and Wildcard expressions
\* that matched
PrimitiveMatches ==
    {i \in CallsOf({"parse_raw_expr"}) :
        calls[i].elem.kind \in {"String", "CharClass", "Wildcard"} /\ calls[i].k = "Some"}

\* leaf was made by a String, CharClass or Wildcard expression
MadeByPrimitive(leaf) ==
    \E i \in PrimitiveMatches :
        calls[i].v[1].pos = leaf.pos /\ calls[i].v[1].value = leaf.value

NewLinesBefore(index) == Cardinality({k \in 1 .. index : src_content[k] = "LF"})

\* C25: without memoization, the line of every Leaf a String, CharClass or
\* Wildcard expression made in the tree parse returned is the number of 0x0a
\* code points of the input before the index of the Leaf.
C25_LeafLineCountsNewLines ==
    pc = "returned" /\ result.ok /\ ~enable_memoization =>
        \A leaf \in ReturnedLeaves :
            MadeByPrimitive(leaf) => leaf.pos.line = NewLinesBefore(leaf.pos.index)

\* C26: when parse_rule returns success the rule stack is what it was at
\* entry of that call, and after a successful parse it is empty.
C26_SuccessRestoresRuleStack ==
    /\ \A i \in RuleCalls :
          calls[i].k = "Some" => calls[i].exit.rule_stack = calls[i].entry.rule_stack
    /\ pc = "returned" /\ result.ok => rule_stack = <<>>

\* C27: the value of every Leaf of the tree a successful parse returned,
\* the Leaves of JOIN among them, is the input text that begins at the index
\* of the Leaf.
C27_LeafIndexIsWhereTextBegins ==
    pc = "returned" /\ result.ok =>
        \A leaf \in ReturnedLeaves :
            /\ leaf.pos.index + Len(leaf.value) <= Len(src_content)
            /\ SubSeq(src_content, leaf.pos.index + 1, leaf.pos.index + Len(leaf.value)) =
                   leaf.value

\* the records of loop wrappers whose element has a finite max
BoundedLoops == {i \in Loops : calls[i].elem.loop_range[2] # -1}

\* C28: a loop wrapper with a finite max completes no more than max
\* iterations, and one with the range (0, 0) returns success without
\* children, the cursor where it was.
C28_NoMoreThanMaxIterations ==
    \A i \in BoundedLoops :
        /\ calls[i].aux.n <= calls[i].elem.loop_range[2]
        /\ calls[i].elem.loop_range = <<0, 0>> =>
               /\ calls[i].k = "Some" /\ calls[i].v = <<>>
               /\ calls[i].exit.src_i = calls[i].entry.src_i

====
